---------------------------- MODULE Spec2Model ----------------------------
(***************************************************************************)
(* A model of make_image.py, the von-image build script: the resolution   *)
(* of the tag and of the docker build arguments, the Dockerfile template  *)
(* rewrite (--output), and the chain of external docker commands.         *)
(*                                                                         *)
(* Python strings are TLA+ strings (TLC evaluates \o, Len and SubSeq on    *)
(* them); a character is a string of length 1.  An optional value is a     *)
(* sequence: << >> is Python's None, <<s>> is the value s.  A dict is the  *)
(* sequence of its <<key, value>> items in insertion order.                *)
(***************************************************************************)
EXTENDS Integers, Sequences, FiniteSets, TLC

(***************************************************************************)
(* Bounds of the model.                                                    *)
(***************************************************************************)
MaxArgs == 2        \* at most this many --build-arg tokens on a command line
MaxLines == 2       \* at most this many lines in a template file

(***************************************************************************)
(* Python built-ins used by the script.                                    *)
(***************************************************************************)
None == << >>
Some(s) == << s >>

\* Python truthiness of an optional string: None and '' are false.
Truthy(opt) == opt # None /\ opt[1] # ""

\* The character of s at the 1-based position i, "" outside the string
\* (the slice s[i-1:i]).
Char(s, i) == IF i >= 1 /\ i <= Len(s) THEN SubSeq(s, i, i) ELSE ""

Min(a, b) == IF a < b THEN a ELSE b

\* The slice s[a:b] (0-based, a and b >= 0), clipped to the string as Python does.
Slice(s, a, b) == SubSeq(s, a + 1, Min(b, Len(s)))

\* The 1-based position of the first occurrence of character c in s, 0 if none.
RECURSIVE FindFrom(_, _, _)
FindFrom(s, c, i) ==
    IF i > Len(s) THEN 0
    ELSE IF Char(s, i) = c THEN i
    ELSE FindFrom(s, c, i + 1)

Find(s, c) == FindFrom(s, c, 1)

\* str.split(sep, maxsplit) for a one-character separator: the string is cut
\* at its first maxsplit occurrences of sep, the rest is kept whole.
RECURSIVE Split(_, _, _)
Split(s, sep, maxsplit) ==
    LET p == Find(s, sep) IN
    IF maxsplit = 0 \/ p = 0 THEN << s >>
    ELSE << SubSeq(s, 1, p - 1) >> \o Split(SubSeq(s, p + 1, Len(s)), sep, maxsplit - 1)

\* sep.join(parts)
RECURSIVE Join(_, _)
Join(sep, parts) ==
    IF parts = << >> THEN ""
    ELSE IF Len(parts) = 1 THEN parts[1]
    ELSE parts[1] \o sep \o Join(sep, Tail(parts))

Digits == "0123456789"

\* str(n) for an integer n >= 0.
RECURSIVE Str(_)
Str(n) ==
    IF n < 10 THEN Char(Digits, n + 1)
    ELSE Str(n \div 10) \o Char(Digits, (n % 10) + 1)

\* dict operations on the insertion-ordered item sequence.
DictKeys(d) == { d[i][1] : i \in 1..Len(d) }

DictHas(d, k) == k \in DictKeys(d)

DictIndex(d, k) == CHOOSE i \in 1..Len(d) : d[i][1] = k

\* d[k]
DictGet(d, k) == d[DictIndex(d, k)][2]

\* d.get(k, default)
DictGetDefault(d, k, default) == IF DictHas(d, k) THEN DictGet(d, k) ELSE default

\* d.setdefault(k, v): an existing key keeps its value
DictSetDefault(d, k, v) == IF DictHas(d, k) THEN d ELSE Append(d, << k, v >>)

\* d[k] = v : an existing key keeps its place, a new key is appended.
DictSet(d, k, v) ==
    IF DictHas(d, k) THEN [d EXCEPT ![DictIndex(d, k)] = << k, v >>]
    ELSE Append(d, << k, v >>)

\* d.update(other)
RECURSIVE DictUpdate(_, _)
DictUpdate(d, other) ==
    IF other = << >> THEN d
    ELSE DictUpdate(DictSet(d, other[1][1], other[1][2]), Tail(other))

(***************************************************************************)
(* The version catalog and the module constants.                           *)
(***************************************************************************)
VERSIONS ==
    << << "dev-441",
          [ version |-> Some("indy1.3.1-dev-441-ew"), path |-> None, python_version |-> None,
            args |-> << << "indy_sdk_repo", "https://github.com/bcgov/indy-sdk.git" >>,
                        << "indy_sdk_rev", "574ca3a881d188c3fd7400d27acbe5edc4c7f666" >>,
                        << "indy_crypto_repo", "https://github.com/hyperledger/indy-crypto.git" >>,
                        << "indy_crypto_rev", "96c79b36c5056eade5a8e3bae418f5a733cc8d8d" >> >> ] >>,
       << "1.0",
          [ version |-> Some("1.0rc3"), path |-> None, python_version |-> None,
            args |-> << << "indy_sdk_url", "https://codeload.github.com/ianco/indy-sdk/tar.gz/50ede4563a6a303b09d78ca97d3238e6c10333f6" >>,
                        << "indy_crypto_url", "https://codeload.github.com/hyperledger/indy-crypto/tar.gz/96c79b36c5056eade5a8e3bae418f5a733cc8d8d" >> >> ] >>,
       << "1.0std",
          [ version |-> None, path |-> Some("1.0"), python_version |-> None,
            args |-> << << "indy_sdk_url", "https://codeload.github.com/hyperledger/indy-sdk/tar.gz/e0ef8889e9f3b9abd706628fe259f56501d492d9" >>,
                        << "indy_crypto_url", "https://codeload.github.com/hyperledger/indy-crypto/tar.gz/96c79b36c5056eade5a8e3bae418f5a733cc8d8d" >> >> ] >>,
       << "1.5",
          [ version |-> Some("1.5-0"), path |-> None, python_version |-> None,
            args |-> << << "indy_sdk_url", "https://codeload.github.com/hyperledger/indy-sdk/tar.gz/16c637cbe855c46bf1d3a869e9ebcfc99bb9aabf" >>,
                        << "indy_crypto_url", "https://codeload.github.com/hyperledger/indy-crypto/tar.gz/9586d6a24f53f2aa0621249f2266d0f129253c48" >> >> ] >>,
       << "1.6",
          [ version |-> Some("1.6-11"), path |-> None, python_version |-> None,
            args |-> << << "indy_sdk_url", "https://codeload.github.com/hyperledger/indy-sdk/tar.gz/5a37407baaf756b3c4f5cac802717dc4a2bd1660" >>,
                        << "indy_crypto_url", "https://codeload.github.com/hyperledger/indy-crypto/tar.gz/a2864642430064c6f00902e9b999cc6356eed9f1" >> >> ] >>,
       << "1.6-ew",
          [ version |-> Some("1.6-ew-11"), path |-> None, python_version |-> None,
            args |-> << << "indy_sdk_url", "https://codeload.github.com/bcgov/indy-sdk/tar.gz/88424a10f53a7e47c49143b9866a0d531c1d9420" >>,
                        << "indy_crypto_url", "https://codeload.github.com/hyperledger/indy-crypto/tar.gz/a2864642430064c6f00902e9b999cc6356eed9f1" >> >> ] >> >>

DEFAULT_NAME == "bcgovimages/von-image"
PY_35_VERSION == "3.5.5"
PY_36_VERSION == "3.6.7"

\* field.get(default) on an optional field of a catalog record
FieldOr(field, default) == IF field = None THEN default ELSE field[1]

(***************************************************************************)
(* The state of a run.                                                     *)
(***************************************************************************)
VARIABLES
    args,          \* the parsed command line (argparse namespace)
    template,      \* the content of the template file that --output reads
    pc,            \* the position of the script
    exit_code,     \* the exit status once pc = "exited", -1 before
    error,         \* the uncaught exception that ended the run, "" if none
    py_ver, target, dockerfile,
    tag, tag_name, tag_version,
    build_args,
    cmd_base, cmd, \* the two docker build argument vectors
    invoked,       \* the subprocess.run calls made so far, in order
    stdout,        \* the lines printed so far
    out            \* the content written to the --output file

vars == << args, template, pc, exit_code, error, py_ver, target, dockerfile,
           tag, tag_name, tag_version, build_args, cmd_base, cmd, invoked,
           stdout, out >>

ver == DictGet(VERSIONS, args.version)


(***************************************************************************)
(* Tag and build argument resolution (lines 86-116).                       *)
(***************************************************************************)
\* py_ver = args.python or ver.get('python_version', PY_35_VERSION)
PyVer(python, v) ==
    IF Truthy(python) THEN python[1] ELSE FieldOr(v.python_version, PY_35_VERSION)

\* target = ver.get('path', args.version)
Target(v, version) == FieldOr(v.path, version)

\* dockerfile = target + '/Dockerfile.ubuntu', replaced by --file when given
Dockerfile(tgt, file) ==
    IF Truthy(file) THEN file[1] ELSE tgt \o "/Dockerfile.ubuntu"

\* the minor version taken from the second character, the '.'
TagVersionSecondChar(py, v, version, debug) ==
    "py" \o Slice(py, 0, 1) \o Slice(py, 1, 2) \o "-" \o FieldOr(v.version, version)
         \o (IF debug THEN "-debug" ELSE "")

\* the tag version computed when no --tag is given (lines 100-103)
TagVersion(py, v, version, debug) ==
    "py" \o Slice(py, 0, 1) \o Slice(py, 2, 3) \o "-" \o FieldOr(v.version, version)
         \o (IF debug THEN "-debug" ELSE "")

\* tag_name, tag_version = tag.split(':', 2) : the unpacking needs exactly two parts
SplitTag(t) == Split(t, ":", 2)

\* The script up to line 104.  An explicit tag that does not unpack into two
\* parts raises ValueError, which ends the process with status 1.
ResolveTag ==
    /\ pc = "start"
    /\ py_ver' = PyVer(args.python, ver)
    /\ target' = Target(ver, args.version)
    /\ dockerfile' = Dockerfile(target', args.file)
    /\ IF Truthy(args.tag)
       THEN LET parts == SplitTag(args.tag[1]) IN
            IF Len(parts) = 2
            THEN /\ tag' = args.tag[1]
                 /\ tag_name' = parts[1]
                 /\ tag_version' = parts[2]
                 /\ pc' = "build_args"
                 /\ UNCHANGED << error, exit_code >>
            ELSE /\ tag' = args.tag[1]
                 /\ tag_name' = args.name
                 /\ error' = "ValueError"
                 /\ exit_code' = 1
                 /\ pc' = "exited"
                 /\ UNCHANGED tag_version
       ELSE /\ tag_name' = args.name
            /\ tag_version' = TagVersion(py_ver', ver, args.version, args.debug)
            /\ tag' = tag_name' \o ":" \o tag_version'
            /\ pc' = "build_args"
            /\ UNCHANGED << error, exit_code >>
    /\ UNCHANGED << args, template, build_args, cmd_base, cmd, invoked, stdout, out >>

\* key, val = arg.split('=', 2)
SplitArg(arg) == Split(arg, "=", 2)

\* The loop of lines 114-116 over the --build-arg tokens: the dict after the
\* tokens that unpacked, and whether every token did.
RECURSIVE ApplyOverrides(_, _)
ApplyOverrides(d, tokens) ==
    IF tokens = << >> THEN [dict |-> d, ok |-> TRUE]
    ELSE LET parts == SplitArg(tokens[1]) IN
         IF Len(parts) # 2 THEN [dict |-> d, ok |-> FALSE]
         ELSE ApplyOverrides(DictSet(d, parts[1], parts[2]), Tail(tokens))

\* build_args before the user's overrides (lines 106-112)
DerivedArgs(v_args, py, name, version, debug) ==
    LET d1 == DictUpdate(<< >>, v_args)
        d2 == DictSet(d1, "python_version", py)
        d3 == DictSet(d2, "tag_name", name)
        d4 == DictSet(d3, "tag_version", version)
    IN  IF ~debug THEN DictSet(d4, "indy_build_flags", "--release") ELSE d4

\* Lines 106-116, and the branch of line 118.
MergeBuildArgs ==
    /\ pc = "build_args"
    /\ LET r == ApplyOverrides(DerivedArgs(ver.args, py_ver, tag_name, tag_version, args.debug),
                               args.build_arg)
       IN  /\ build_args' = r.dict
           /\ IF r.ok
              THEN /\ pc' = IF Truthy(args.output) THEN "template" ELSE "cmds"
                   /\ UNCHANGED << error, exit_code >>
              ELSE /\ error' = "ValueError"
                   /\ exit_code' = 1
                   /\ pc' = "exited"
    /\ UNCHANGED << args, template, py_ver, target, dockerfile, tag, tag_name,
                    tag_version, cmd_base, cmd, invoked, stdout, out >>

(***************************************************************************)
(* Template output (lines 118-134).                                        *)
(***************************************************************************)
WordChars == "abcdefghijklmnopqrstuvwxyzABCDEFGHIJKLMNOPQRSTUVWXYZ0123456789_"
SpaceChars == " \t\n\r\f"

IsWord(c) == Find(WordChars, c) # 0
IsSpace(c) == Find(SpaceChars, c) # 0

\* The iteration of a text file: each line keeps its line end, the last line
\* may have none.
RECURSIVE SplitLines(_)
SplitLines(content) ==
    LET p == Find(content, "\n") IN
    IF content = "" THEN << >>
    ELSE IF p = 0 THEN << content >>
    ELSE << SubSeq(content, 1, p) >> \o SplitLines(SubSeq(content, p + 1, Len(content)))

\* The length of the longest run of characters of s from position i on
\* that are word characters (word = TRUE) or white space (word = FALSE).
RECURSIVE Run(_, _, _)
Run(s, i, word) ==
    IF i > Len(s) THEN 0
    ELSE IF (IF word THEN IsWord(Char(s, i)) ELSE IsSpace(Char(s, i)))
         THEN 1 + Run(s, i + 1, word)
         ELSE 0

\* re.match(r'^ARG\s+(\w+)=?(.*)$', line): \s+ and \w+ are greedy and nothing
\* after them can fail where a shorter run would succeed; '.' matches no
\* newline and '$' matches at the end or before a final newline.
ReMatch(line) ==
    LET ws    == Run(line, 4, FALSE)
        nm    == Run(line, 4 + ws, TRUE)
        after == 4 + ws + nm
        eq    == IF Char(line, after) = "=" THEN 1 ELSE 0
        rest  == SubSeq(line, after + eq, Len(line))
        nl    == Find(rest, "\n")
        g2    == IF nl = 0 THEN rest ELSE SubSeq(rest, 1, nl - 1)
    IN  IF Slice(line, 0, 3) = "ARG" /\ ws >= 1 /\ nm >= 1 /\ (nl = 0 \/ nl = Len(rest))
        THEN [matched |-> TRUE, g1 |-> SubSeq(line, 4 + ws, after - 1), g2 |-> g2]
        ELSE [matched |-> FALSE, g1 |-> "", g2 |-> ""]

\* The body of the loop of lines 129-133 for one line.
RewriteLine(line, src_replace) ==
    LET m == ReMatch(line) IN
    IF m.matched
    THEN "ARG " \o m.g1 \o "=" \o DictGetDefault(src_replace, m.g1, m.g2) \o "\n"
    ELSE line

\* the elif of line 124 left out: --s2i keeps the build arguments
SrcReplaceTestOnly(test, s2i, bargs, t) ==
    IF test THEN << << "base_image", t >> >> ELSE bargs

\* src_replace (lines 120-126)
SrcReplace(test, s2i, bargs, t) ==
    IF test \/ s2i THEN << << "base_image", t >> >> ELSE bargs

\* src_path (lines 119-125)
SrcPath(test, s2i, tgt, dfile) ==
    IF test THEN tgt \o "/Dockerfile.test"
    ELSE IF s2i THEN tgt \o "/Dockerfile.s2i"
    ELSE dfile

RECURSIVE RewriteLines(_, _)
RewriteLines(lines, src_replace) ==
    IF lines = << >> THEN ""
    ELSE RewriteLine(lines[1], src_replace) \o RewriteLines(Tail(lines), src_replace)

\* Lines 118-134: the file at SrcPath, whose content is template, is rewritten
\* line by line into the output file, then sys.exit(0).
WriteTemplate ==
    /\ pc = "template"
    /\ out' = RewriteLines(SplitLines(template),
                           SrcReplace(args.test, args.s2i, build_args, tag))
    /\ exit_code' = 0
    /\ pc' = "exited"
    /\ UNCHANGED << args, template, error, py_ver, target, dockerfile, tag, tag_name,
                    tag_version, build_args, cmd_base, cmd, invoked, stdout >>

(***************************************************************************)
(* The docker command lines (lines 136-155).                               *)
(***************************************************************************)
\* the loop of lines 137-138 over build_args.items()
RECURSIVE CmdArgs(_)
CmdArgs(bargs) ==
    IF bargs = << >> THEN << >>
    ELSE << "--build-arg", bargs[1][1] \o "=" \o bargs[1][2] >> \o CmdArgs(Tail(bargs))

\* the options both builds share, and -f with the given suffix (lines 140-148)
CommonOptions(dfile, suffix, no_cache, squash) ==
    (IF dfile # "" THEN << "-f", dfile \o suffix >> ELSE << >>)
    \o (IF no_cache THEN << "--no-cache" >> ELSE << >>)
    \o (IF squash THEN << "--squash" >> ELSE << >>)

\* the cache busting argument added to the base build as well
CmdBaseCacheBust(bargs, dfile, no_cache, squash, tgt) ==
    << "docker", "build" >> \o CmdArgs(bargs)
    \o CommonOptions(dfile, "_indy", no_cache, squash)
    \o << "-t", "local_indy_base" >> \o << "--build-arg", "CACHEBUST=100000" >> \o << tgt >>

\* cmd_base: the base image build
CmdBase(bargs, dfile, no_cache, squash, tgt) ==
    << "docker", "build" >> \o CmdArgs(bargs)
    \o CommonOptions(dfile, "_indy", no_cache, squash)
    \o << "-t", "local_indy_base" >> \o << tgt >>

\* cmd: the main image build, with the cache busting argument rnd
Cmd(bargs, dfile, no_cache, squash, t, tgt, rnd) ==
    << "docker", "build" >> \o CmdArgs(bargs)
    \o CommonOptions(dfile, "_von", no_cache, squash)
    \o << "-t", t >> \o << "--build-arg", "CACHEBUST=" \o Str(rnd) >> \o << tgt >>

\* random.randint(RandLo, RandHi): the ends and one value between them
RandLo == 100000
RandHi == 999999
RandomSamples == { RandLo, 543210, RandHi }

\* the exit statuses a child process is given here: success and two failures
ReturnCodes == { 0, 1, 2 }

\* s2i_tag, s2i_cmd (lines 175-179)
S2iTag == tag \o "-s2i"
S2iCmd ==
    << "docker", "build", "--build-arg", "base_image=" \o tag, "-t", S2iTag,
       "-f", target \o "/Dockerfile.s2i", target >>

\* test_path, test_tag and the two test commands (lines 193-200)
TestTag == tag \o "-test"
TestBuildCmd ==
    << "docker", "build", "--build-arg", "base_image=" \o tag,
       "-t", TestTag, "-f", target \o "/Dockerfile.test", target >>
TestRunCmd == << "docker", "run", "--rm", "-i", TestTag >>

InspectCmd == << "docker", "image", "inspect", tag, "--format={{.Size}}" >>

PushCmd == << "docker", "push", IF args.s2i THEN S2iTag ELSE tag >>

\* where the script goes after the test block: line 206
AfterTest == IF ~args.dry_run /\ args.push THEN "push" ELSE "end"

\* the tests run whatever --test and --push say
AfterS2iAlwaysTests == IF ~args.dry_run THEN "test_build" ELSE AfterTest

\* the guard of line 191 on --dry-run left out
AfterS2iNoDryRunGuard == IF args.test \/ args.push THEN "test_build" ELSE AfterTest

\* where the script goes after the s2i block: lines 191-192
AfterS2i ==
    IF ~args.dry_run /\ (args.test \/ args.push) THEN "test_build" ELSE AfterTest

\* where the script goes after the build block: line 174
AfterBuild == IF args.s2i THEN "s2i" ELSE AfterS2i

\* if proc.returncode: (lines 161, 165, 185, 197, 201, 209)
FailedOnlyOne(rc) == rc = 1
Failed(rc) == rc # 0

\* subprocess.run(argv), which returned rc
RunProc(step, argv, rc) ==
    invoked' = Append(invoked, [step |-> step, argv |-> argv, rc |-> rc])

\* sys.exit(code)
SysExit(code) == pc' = "exited" /\ exit_code' = code

\* Lines 136-155.
ConstructCmds ==
    /\ pc = "cmds"
    /\ \E rnd \in RandomSamples :
          /\ cmd_base' = CmdBase(build_args, dockerfile, args.no_cache, args.squash, target)
          /\ cmd' = Cmd(build_args, dockerfile, args.no_cache, args.squash, tag, target, rnd)
    /\ pc' = IF args.dry_run THEN "dry_print" ELSE "build_base"
    /\ UNCHANGED << args, template, exit_code, error, py_ver, target, dockerfile, tag,
                    tag_name, tag_version, build_args, invoked, stdout, out >>

\* Lines 156-157: a dry run prints the main build command.
PrintCmd ==
    /\ pc = "dry_print"
    /\ stdout' = Append(stdout, Join(" ", cmd))
    /\ pc' = AfterBuild
    /\ UNCHANGED << args, template, exit_code, error, py_ver, target, dockerfile, tag,
                    tag_name, tag_version, build_args, cmd_base, cmd, invoked, out >>

\* Lines 159-163: the base image build.
BuildBase ==
    /\ pc = "build_base"
    /\ \E rc \in ReturnCodes :
          /\ RunProc("base", cmd_base, rc)
          /\ IF Failed(rc)
             THEN /\ stdout' = stdout \o << "Building docker image...", "build failed" >>
                  /\ SysExit(1)
             ELSE /\ stdout' = Append(stdout, "Building docker image...")
                  /\ pc' = "build_main"
                  /\ UNCHANGED exit_code
    /\ UNCHANGED << args, template, error, py_ver, target, dockerfile, tag, tag_name,
                    tag_version, build_args, cmd_base, cmd, out >>

\* Lines 164-169: the main image build.
BuildMain ==
    /\ pc = "build_main"
    /\ \E rc \in ReturnCodes :
          /\ RunProc("main", cmd, rc)
          /\ IF Failed(rc)
             THEN /\ stdout' = Append(stdout, "build failed")
                  /\ SysExit(1)
             ELSE /\ stdout' = IF args.quiet
                               THEN Append(stdout, "Successfully tagged " \o tag)
                               ELSE stdout
                  /\ pc' = "inspect"
                  /\ UNCHANGED exit_code
    /\ UNCHANGED << args, template, error, py_ver, target, dockerfile, tag, tag_name,
                    tag_version, build_args, cmd_base, cmd, out >>

(***************************************************************************)
(* The size report (lines 170-172).                                        *)
(***************************************************************************)
\* str.strip(): white space removed at both ends
RECURSIVE Strip(_)
Strip(s) ==
    IF s = "" THEN s
    ELSE IF IsSpace(Char(s, 1)) THEN Strip(SubSeq(s, 2, Len(s)))
    ELSE IF IsSpace(Char(s, Len(s))) THEN Strip(SubSeq(s, 1, Len(s) - 1))
    ELSE s

IsDigits(s) == s # "" /\ \A i \in 1..Len(s) : Find(Digits, Char(s, i)) # 0

\* int(s) of a string of decimal digits
RECURSIVE ToInt(_)
ToInt(s) ==
    IF s = "" THEN 0
    ELSE 10 * ToInt(SubSeq(s, 1, Len(s) - 1)) + (Find(Digits, Char(s, Len(s))) - 1)

\* '%0.2f%s' % (n / 1024.0 / 1024.0, 'MB'): n / 2^20 is exact in a double,
\* and the two decimals are rounded to nearest, ties to even.
SizeMB(n) ==
    LET q == (n * 100) \div 1048576
        r == (n * 100) % 1048576
        h == IF 2 * r > 1048576 \/ (2 * r = 1048576 /\ q % 2 = 1) THEN q + 1 ELSE q
        frac == h % 100
    IN  Str(h \div 100) \o "." \o (IF frac < 10 THEN "0" ELSE "") \o Str(frac) \o "MB"

\* What docker image inspect returns: the size of the image, or a failure
\* that leaves standard output empty.
InspectOutcomes ==
    { [rc |-> 0, stdout |-> "1572864\n"], [rc |-> 1, stdout |-> ""] }

\* Lines 170-172.  The return code is not looked at; int() of text that is no
\* number raises ValueError, which ends the process with status 1.
Inspect ==
    /\ pc = "inspect"
    /\ \E r \in InspectOutcomes :
          /\ RunProc("inspect", InspectCmd, r.rc)
          /\ IF IsDigits(Strip(r.stdout))
             THEN /\ stdout' = Append(stdout, SizeMB(ToInt(Strip(r.stdout))))
                  /\ pc' = AfterBuild
                  /\ UNCHANGED << error, exit_code >>
             ELSE /\ error' = "ValueError"
                  /\ SysExit(1)
                  /\ UNCHANGED stdout
    /\ UNCHANGED << args, template, py_ver, target, dockerfile, tag, tag_name,
                    tag_version, build_args, cmd_base, cmd, out >>

(***************************************************************************)
(* The s2i build, the tests and the push (lines 174-211).                  *)
(***************************************************************************)
\* print(list): the repr of a list of strings
RECURSIVE Quoted(_)
Quoted(parts) ==
    IF parts = << >> THEN << >> ELSE << "'" \o parts[1] \o "'" >> \o Quoted(Tail(parts))

Repr(parts) == "[" \o Join(", ", Quoted(parts)) \o "]"

\* Lines 180-181: a dry run prints the s2i build command.
PrintS2i ==
    /\ pc = "s2i"
    /\ args.dry_run
    /\ stdout' = Append(stdout, Join(" ", S2iCmd))
    /\ pc' = AfterS2i
    /\ UNCHANGED << args, template, exit_code, error, py_ver, target, dockerfile, tag,
                    tag_name, tag_version, build_args, cmd_base, cmd, invoked, out >>

\* Lines 183-189: the s2i image build.
BuildS2i ==
    /\ pc = "s2i"
    /\ ~args.dry_run
    /\ \E rc \in ReturnCodes :
          /\ RunProc("s2i", S2iCmd, rc)
          /\ IF Failed(rc)
             THEN /\ stdout' = stdout \o << Repr(S2iCmd), "s2i build failed" >>
                  /\ SysExit(1)
             ELSE /\ stdout' = stdout \o << Repr(S2iCmd) >>
                               \o (IF args.quiet
                                   THEN << "Successfully tagged " \o S2iTag >>
                                   ELSE << >>)
                  /\ pc' = AfterS2i
                  /\ UNCHANGED exit_code
    /\ UNCHANGED << args, template, error, py_ver, target, dockerfile, tag, tag_name,
                    tag_version, build_args, cmd_base, cmd, out >>

\* Lines 193-199: the test image build.
TestBuild ==
    /\ pc = "test_build"
    /\ \E rc \in ReturnCodes :
          /\ RunProc("test_build", TestBuildCmd, rc)
          /\ IF Failed(rc)
             THEN /\ stdout' = Append(stdout, "test image build failed")
                  /\ SysExit(1)
             ELSE /\ pc' = "test_run"
                  /\ UNCHANGED << stdout, exit_code >>
    /\ UNCHANGED << args, template, error, py_ver, target, dockerfile, tag, tag_name,
                    tag_version, build_args, cmd_base, cmd, out >>

\* Lines 200-204: the test run.
TestRun ==
    /\ pc = "test_run"
    /\ \E rc \in ReturnCodes :
          /\ RunProc("test_run", TestRunCmd, rc)
          /\ IF Failed(rc)
             THEN /\ stdout' = Append(stdout, "One or more tests failed")
                  /\ SysExit(1)
             ELSE /\ stdout' = Append(stdout, "All tests passed")
                  /\ pc' = AfterTest
                  /\ UNCHANGED exit_code
    /\ UNCHANGED << args, template, error, py_ver, target, dockerfile, tag, tag_name,
                    tag_version, build_args, cmd_base, cmd, out >>

\* Lines 206-211: the push.
Push ==
    /\ pc = "push"
    /\ \E rc \in ReturnCodes :
          /\ RunProc("push", PushCmd, rc)
          /\ IF Failed(rc)
             THEN /\ stdout' = stdout \o << "Pushing docker image...", "push failed" >>
                  /\ SysExit(1)
             ELSE /\ stdout' = Append(stdout, "Pushing docker image...")
                  /\ pc' = "end"
                  /\ UNCHANGED exit_code
    /\ UNCHANGED << args, template, error, py_ver, target, dockerfile, tag, tag_name,
                    tag_version, build_args, cmd_base, cmd, out >>

\* The end of the script: the interpreter exits with status 0.
Finish ==
    /\ pc = "end"
    /\ SysExit(0)
    /\ UNCHANGED << args, template, error, py_ver, target, dockerfile, tag, tag_name,
                    tag_version, build_args, cmd_base, cmd, invoked, stdout, out >>

(***************************************************************************)
(* Command lines and template files of the runs checked.                   *)
(***************************************************************************)
SeqsUpTo(S, n) == UNION { [1..k -> S] : k \in 0..n }

\* parser.parse_args() of a command line that names only the version 1.6
BaseArgs ==
    [ version |-> "1.6", name |-> DEFAULT_NAME, tag |-> None, file |-> None,
      build_arg |-> << >>, debug |-> FALSE, dry_run |-> FALSE, no_cache |-> FALSE,
      output |-> None, python |-> None, push |-> FALSE, quiet |-> FALSE,
      s2i |-> FALSE, squash |-> FALSE, test |-> FALSE ]

VersionKeys == DictKeys(VERSIONS)

\* three command lines that between them take the script through every step
CoverInputs ==
    { [BaseArgs EXCEPT !.dry_run = TRUE, !.s2i = TRUE],
      [BaseArgs EXCEPT !.s2i = TRUE, !.test = TRUE, !.push = TRUE],
      [BaseArgs EXCEPT !.output = Some("Dockerfile.out")] }

DefaultTemplate == "FROM ubuntu\nARG python_version=3\nARG FOO\n"

\* the build plan: every combination of the flags that select its steps
PlanTokens == { "FOO=bar", "CACHEBUST=1", "FOO" }
PlanInputs ==
    { [BaseArgs EXCEPT !.version = v, !.dry_run = d, !.output = o, !.s2i = s,
                       !.test = t, !.push = p, !.quiet = q, !.no_cache = q,
                       !.squash = ~q, !.build_arg = b] :
        v \in { "1.6", "1.0std" }, d \in BOOLEAN, o \in { None, Some("Dockerfile.out") },
        s \in BOOLEAN, t \in BOOLEAN, p \in BOOLEAN, q \in BOOLEAN,
        b \in SeqsUpTo(PlanTokens, MaxArgs) }

\* the build arguments: every version, explicit tags and --build-arg tokens
\* with no, one and several separators
ArgTokens == { "FOO=bar", "FOO=baz", "indy_sdk_url=file:///sdk.tgz", "tag_name=mine",
               "FOO=a=b", "FOO" }
ArgTags == { None, Some("img:v1"), Some("img"), Some("localhost:5000/img:v1") }
ArgsInputs ==
    { [BaseArgs EXCEPT !.version = v, !.tag = t, !.debug = g, !.dry_run = d,
                       !.build_arg = b] :
        v \in VersionKeys, t \in ArgTags, g \in BOOLEAN, d \in BOOLEAN,
        b \in SeqsUpTo(ArgTokens, MaxArgs) }

\* the tag: every version, names, python versions and the debug flag
TagPythons == { None, Some(""), Some(PY_35_VERSION), Some(PY_36_VERSION), Some("3.10.1"),
                Some("3.7"), Some("37") }
TagInputs ==
    { [BaseArgs EXCEPT !.version = v, !.name = n, !.python = y, !.debug = g,
                       !.tag = t, !.dry_run = d] :
        v \in VersionKeys, n \in { DEFAULT_NAME, "von" }, y \in TagPythons,
        g \in BOOLEAN, t \in { None, Some("img:v1") }, d \in BOOLEAN }

\* the template: --output with and without --test and --s2i
TemplateInputs ==
    { [BaseArgs EXCEPT !.output = Some("Dockerfile.out"), !.test = t, !.s2i = s,
                       !.build_arg = b] :
        t \in BOOLEAN, s \in BOOLEAN, b \in SeqsUpTo({ "FOO=baz" }, MaxArgs) }

\* template lines: well-formed ARG declarations, lines that are none, and
\* ARG-like lines that are malformed
LinePool ==
    { "ARG FOO=bar\n", "ARG python_version\n", "ARG base_image=ubuntu\n",
      "ARG \t UNSET=a=b c\n", "FROM $base_image\n", " ARG FOO=bar\n",
      "ARG foo-bar=1\n", "ARG FOO bar\n" }
LastLinePool == { "ARG FOO=bar", "RUN true" }

RECURSIVE Concat(_)
Concat(lines) == IF lines = << >> THEN "" ELSE lines[1] \o Concat(Tail(lines))

\* the files of at most MaxLines lines; only the last line may lack its line end
Templates ==
    { Concat(ls) : ls \in SeqsUpTo(LinePool, MaxLines) }
    \cup { Concat(ls) \o u : ls \in SeqsUpTo(LinePool, MaxLines - 1), u \in LastLinePool }

(***************************************************************************)
(* The specifications.                                                     *)
(***************************************************************************)
InitWith(inputs, templates) ==
    /\ args \in inputs
    /\ template \in templates
    /\ pc = "start"
    /\ exit_code = -1
    /\ error = ""
    /\ py_ver = ""
    /\ target = ""
    /\ dockerfile = ""
    /\ tag = ""
    /\ tag_name = ""
    /\ tag_version = ""
    /\ build_args = << >>
    /\ cmd_base = << >>
    /\ cmd = << >>
    /\ invoked = << >>
    /\ stdout = << >>
    /\ out = ""

Init == InitWith(PlanInputs \cup CoverInputs, { DefaultTemplate })
InitArgs == InitWith(ArgsInputs \cup CoverInputs, { DefaultTemplate })
InitTag == InitWith(TagInputs \cup CoverInputs, { DefaultTemplate })
InitTemplate == InitWith(TemplateInputs \cup CoverInputs, Templates)

Next ==
    \/ ResolveTag
    \/ MergeBuildArgs
    \/ WriteTemplate
    \/ ConstructCmds
    \/ PrintCmd
    \/ BuildBase
    \/ BuildMain
    \/ Inspect
    \/ PrintS2i
    \/ BuildS2i
    \/ TestBuild
    \/ TestRun
    \/ Push
    \/ Finish

Spec == Init /\ [][Next]_vars
SpecArgs == InitArgs /\ [][Next]_vars
SpecTag == InitTag /\ [][Next]_vars
SpecTemplate == InitTemplate /\ [][Next]_vars

(***************************************************************************)
(* Vocabulary of the properties.                                           *)
(***************************************************************************)
RECURSIVE CountChar(_, _)
CountChar(s, c) ==
    IF s = "" THEN 0
    ELSE (IF Char(s, 1) = c THEN 1 ELSE 0) + CountChar(SubSeq(s, 2, Len(s)), c)

\* what stands before and after the first occurrence of c in s
Before(s, c) == SubSeq(s, 1, Find(s, c) - 1)
After(s, c) == SubSeq(s, Find(s, c) + 1, Len(s))

TemplateMode == Truthy(args.output)
Exited == pc = "exited"

\* a command line whose --tag has exactly one ':' and whose --build-arg
\* tokens have exactly one '=' each
ValidCommandLine ==
    /\ Truthy(args.tag) => CountChar(args.tag[1], ":") = 1
    /\ \A i \in 1..Len(args.build_arg) : CountChar(args.build_arg[i], "=") = 1

\* the steps whose failure the script reports, in the order of the script
StepOrder == << "base", "main", "inspect", "s2i", "test_build", "test_run", "push" >>
Rank(step) == CHOOSE r \in 1..Len(StepOrder) : StepOrder[r] = step
CheckedSteps == { "base", "main", "s2i", "test_build", "test_run", "push" }

\* argv holds the pair --build-arg kv
HasBuildArg(argv, kv) ==
    \E j \in 1..(Len(argv) - 1) : argv[j] = "--build-arg" /\ argv[j + 1] = kv

\* the values that follow a --build-arg in argv
BuildArgValues(argv) ==
    { j \in 2..Len(argv) : argv[j - 1] = "--build-arg" }

(***************************************************************************)
(* C1: in a run that is neither a dry run nor a template run, a build, test *)
(* or push command that returns non-zero is the last command invoked and   *)
(* the process has then exited with status 1; a run in which every invoked  *)
(* command returned zero exits with status 0.                               *)
(***************************************************************************)
C1_FailureAborts ==
    (~args.dry_run /\ ~TemplateMode) =>
        /\ \A i \in 1..Len(invoked) :
              (invoked[i].step \in CheckedSteps /\ invoked[i].rc # 0) =>
                  (i = Len(invoked) /\ Exited /\ exit_code = 1)
        /\ (Exited /\ ValidCommandLine /\ \A i \in 1..Len(invoked) : invoked[i].rc = 0)
              => exit_code = 0

\* the test run fails with status 2 in a run that was also to push
C1_Witness ==
    /\ ~args.dry_run /\ ~TemplateMode /\ args.push /\ args.s2i
    /\ Exited /\ exit_code = 1
    /\ Len(invoked) = 6
    /\ invoked[6].step = "test_run" /\ invoked[6].rc = 2

C7_OwnFlag ==
    /\ \A i \in 1..Len(invoked) :
          /\ invoked[i].step = "s2i" => args.s2i
          /\ invoked[i].step \in { "test_build", "test_run" } => args.test
          /\ invoked[i].step = "push" => args.push
    /\ \A i, j \in 1..Len(invoked) :
          i < j => Rank(invoked[i].step) < Rank(invoked[j].step)

(***************************************************************************)
(* C7, amended: the s2i build is invoked only with --s2i, the test image   *)
(* build and the test run only with --test or --push, the push only with   *)
(* --push, and the commands run in the order of the script: base build,    *)
(* main build, size report, s2i build, test build, test run, push.         *)
(***************************************************************************)
C7_Gated ==
    /\ \A i \in 1..Len(invoked) :
          /\ invoked[i].step = "s2i" => args.s2i
          /\ invoked[i].step \in { "test_build", "test_run" } => (args.test \/ args.push)
          /\ invoked[i].step = "push" => args.push
    /\ \A i, j \in 1..Len(invoked) :
          i < j => Rank(invoked[i].step) < Rank(invoked[j].step)

\* a run with --s2i and --push and without --test that pushed
C7_Witness ==
    /\ args.s2i /\ args.push /\ ~args.test
    /\ Exited /\ exit_code = 0
    /\ Len(invoked) = 7 /\ invoked[7].step = "push"

(***************************************************************************)
(* C9: a size report that fails (docker image inspect returns non-zero or  *)
(* prints no size) does not end the run: the process does not exit at the  *)
(* report, and a run whose build, test and push commands all returned zero *)
(* exits with status 0.                                                    *)
(***************************************************************************)
C9_BestEffortReport ==
    /\ \A i \in 1..Len(invoked) :
          (invoked[i].step = "inspect" /\ invoked[i].rc # 0) =>
              ~(Exited /\ i = Len(invoked))
    /\ (Exited /\ ~TemplateMode /\ ValidCommandLine
          /\ \A i \in 1..Len(invoked) :
                invoked[i].step \in CheckedSteps => invoked[i].rc = 0)
          => exit_code = 0

(***************************************************************************)
(* C10: a dry run without --output invokes no external command, whatever   *)
(* --s2i, --test and --push say, prints the main build command and, with   *)
(* --s2i, the s2i build command, and exits with status 0.                  *)
(***************************************************************************)
C10_DryRun ==
    (args.dry_run /\ ~TemplateMode) =>
        /\ invoked = << >>
        /\ (Exited /\ ValidCommandLine) =>
              /\ exit_code = 0
              /\ stdout = << Join(" ", cmd) >>
                          \o (IF args.s2i THEN << Join(" ", S2iCmd) >> ELSE << >>)

\* a dry run with --s2i, --test and --push that has ended
C10_Witness ==
    /\ args.dry_run /\ ~TemplateMode /\ args.s2i /\ args.test /\ args.push
    /\ Exited /\ exit_code = 0 /\ Len(stdout) = 2

(***************************************************************************)
(* C2: once the build arguments of a valid command line are resolved,      *)
(* build_args has exactly the keys of the version's catalog entry, the     *)
(* derived keys (python_version, tag_name, tag_version, and                *)
(* indy_build_flags unless --debug) and the keys of the --build-arg        *)
(* tokens, each key once; a key given by --build-arg has the value of its  *)
(* last token, any other derived key its derived value, any other catalog  *)
(* key its catalog value.                                                  *)
(***************************************************************************)
UserKeys == { Before(args.build_arg[i], "=") : i \in 1..Len(args.build_arg) }

LastToken(k) ==
    LET is == { i \in 1..Len(args.build_arg) : Before(args.build_arg[i], "=") = k }
    IN  args.build_arg[CHOOSE i \in is : \A j \in is : j <= i]

DerivedKeys ==
    { "python_version", "tag_name", "tag_version" }
    \cup (IF args.debug THEN { } ELSE { "indy_build_flags" })

DerivedValue(k) ==
    CASE k = "python_version" -> py_ver
      [] k = "tag_name" -> tag_name
      [] k = "tag_version" -> tag_version
      [] k = "indy_build_flags" -> "--release"

Resolved == pc \notin { "start", "build_args" } /\ ValidCommandLine

C2_MergeOrder ==
    Resolved =>
        /\ DictKeys(build_args) = DictKeys(ver.args) \cup DerivedKeys \cup UserKeys
        /\ Cardinality(DictKeys(build_args)) = Len(build_args)
        /\ \A k \in DictKeys(build_args) :
              DictGet(build_args, k) =
                 IF k \in UserKeys THEN After(LastToken(k), "=")
                 ELSE IF k \in DerivedKeys THEN DerivedValue(k)
                 ELSE DictGet(ver.args, k)

\* a key given twice, and a catalog and a derived key overridden
C2_Witness ==
    /\ Resolved
    /\ \/ /\ args.build_arg = << "FOO=bar", "FOO=baz" >>
          /\ DictGet(build_args, "FOO") = "baz"
       \/ /\ args.build_arg = << "indy_sdk_url=file:///sdk.tgz", "tag_name=mine" >>
          /\ DictGet(build_args, "indy_sdk_url") = "file:///sdk.tgz"
          /\ DictGet(build_args, "tag_name") = "mine"
          /\ tag_name # "mine"

(***************************************************************************)
(* C8: an explicit --tag and every --build-arg token are split at their    *)
(* first separator only: a token with one or more separators is accepted,  *)
(* what stands before the first separator being the tag name or argument   *)
(* key and everything after it the tag version or argument value; a token  *)
(* with no separator ends the run with status 1 before any external        *)
(* command is invoked.                                                     *)
(***************************************************************************)
TagSplits == Truthy(args.tag) => Find(args.tag[1], ":") # 0
ArgsSplit == \A i \in 1..Len(args.build_arg) : Find(args.build_arg[i], "=") # 0

C8_SplitAtFirst ==
    /\ (pc # "start" /\ Truthy(args.tag) /\ TagSplits) =>
          /\ tag_name = Before(args.tag[1], ":")
          /\ tag_version = After(args.tag[1], ":")
    /\ (pc \notin { "start", "build_args" } /\ TagSplits /\ ArgsSplit) =>
          /\ error = ""
          /\ \A k \in UserKeys : DictGet(build_args, k) = After(LastToken(k), "=")
    /\ (~TagSplits \/ ~ArgsSplit) =>
          /\ invoked = << >>
          /\ pc \notin { "start", "build_args" } => (Exited /\ exit_code = 1)

(***************************************************************************)
(* C3: with no explicit --tag, once the tag is resolved it is              *)
(* <name>:py<c1><c3>-<label>[-debug]: c1 and c3 are the first and third    *)
(* characters of the resolved python version (the --python value if one    *)
(* is given, else the catalog's python_version, else 3.5.5; a character    *)
(* the string lacks contributes nothing), <label> is the catalog's version *)
(* field or, without one, the version key, and -debug is there exactly     *)
(* with --debug.  Version 1.6 with no overrides gives                      *)
(* bcgovimages/von-image:py35-1.6-11.                                      *)
(***************************************************************************)
\* the label of each version key, read off the catalog
Labels ==
    [ k \in VersionKeys |->
        CASE k = "dev-441" -> "indy1.3.1-dev-441-ew"
          [] k = "1.0" -> "1.0rc3"
          [] k = "1.0std" -> "1.0std"
          [] k = "1.5" -> "1.5-0"
          [] k = "1.6" -> "1.6-11"
          [] k = "1.6-ew" -> "1.6-ew-11" ]

ResolvedPython ==
    IF args.python # None /\ args.python # << "" >> THEN args.python[1]
    ELSE IF ver.python_version # None THEN ver.python_version[1]
    ELSE "3.5.5"

C3_TagFormat ==
    (pc # "start" /\ ~Truthy(args.tag)) =>
        /\ tag = args.name \o ":py" \o Char(ResolvedPython, 1) \o Char(ResolvedPython, 3)
                   \o "-" \o Labels[args.version] \o (IF args.debug THEN "-debug" ELSE "")
        /\ tag = tag_name \o ":" \o tag_version
        /\ (args.version = "1.6" /\ args.name = DEFAULT_NAME /\ ~Truthy(args.python)
              /\ ~args.debug) => tag = "bcgovimages/von-image:py35-1.6-11"

\* a debug build of a version without a label, with a two-digit minor
C3_Witness ==
    /\ pc = "cmds"
    /\ args.python = Some("3.10.1") /\ args.debug /\ args.tag = None
    /\ tag = "von:py31-1.0std-debug"

(***************************************************************************)
(* Template lines, as the properties read them: a well-formed declaration  *)
(* is ARG, white space, a name of word characters, then either nothing or  *)
(* '=' and a default.                                                      *)
(***************************************************************************)
\* a line without its line end
Chomp(line) ==
    IF line # "" /\ Char(line, Len(line)) = "\n" THEN SubSeq(line, 1, Len(line) - 1)
    ELSE line

\* the declaration after ARG and the white space that follows it
RECURSIVE DropSpace(_)
DropSpace(s) ==
    IF s # "" /\ Char(s, 1) \in { " ", "\t" } THEN DropSpace(SubSeq(s, 2, Len(s))) ELSE s

Declaration(line) == DropSpace(SubSeq(Chomp(line), 4, Len(Chomp(line))))

DeclName(line) ==
    IF Find(Declaration(line), "=") = 0 THEN Declaration(line)
    ELSE Before(Declaration(line), "=")

DeclDefault(line) ==
    IF Find(Declaration(line), "=") = 0 THEN "" ELSE After(Declaration(line), "=")

WellFormedArg(line) ==
    /\ Len(Chomp(line)) >= 5
    /\ SubSeq(line, 1, 3) = "ARG"
    /\ Char(line, 4) \in { " ", "\t" }
    /\ DeclName(line) # ""
    /\ \A i \in 1..Len(DeclName(line)) : IsWord(Char(DeclName(line), i))

InLines == SplitLines(template)
OutLines == SplitLines(out)

\* the line written for a well-formed declaration under the mapping d
Declared(line, d) ==
    "ARG " \o DeclName(line) \o "="
           \o (IF DictHas(d, DeclName(line)) THEN DictGet(d, DeclName(line))
               ELSE DeclDefault(line))
           \o "\n"

TemplateDone == Exited /\ TemplateMode /\ ValidCommandLine

(***************************************************************************)
(* C4, as stated: in template mode, whatever --test and --s2i say, every   *)
(* well-formed declaration ARG <name>[=<default>] is written as            *)
(* ARG <name>=<value of name in build_args>, or with its own default when  *)
(* build_args has no such key.                                             *)
(***************************************************************************)
C4_MergedValues ==
    TemplateDone =>
        /\ Len(OutLines) = Len(InLines)
        /\ \A i \in 1..Len(InLines) :
              WellFormedArg(InLines[i]) => OutLines[i] = Declared(InLines[i], build_args)

(***************************************************************************)
(* C4, amended: in template mode without --test and --s2i every            *)
(* well-formed declaration ARG <name>[=<default>] is written as            *)
(* ARG <name>=<value of name in build_args>, or with its own default when  *)
(* build_args has no such key; with --test or --s2i the only name          *)
(* replaced is base_image, whose value is the image tag, and every other   *)
(* declaration is written with its own default.                            *)
(***************************************************************************)
C4_ReplacedValues ==
    TemplateDone =>
        /\ Len(OutLines) = Len(InLines)
        /\ \A i \in 1..Len(InLines) :
              WellFormedArg(InLines[i]) =>
                 OutLines[i] = Declared(InLines[i],
                                        IF args.test \/ args.s2i
                                        THEN << << "base_image", tag >> >>
                                        ELSE build_args)

\* a user override and a derived value written into the template
C4_Witness ==
    /\ TemplateDone /\ ~args.test /\ ~args.s2i
    /\ args.build_arg = << "FOO=baz" >>
    /\ template = "ARG FOO=bar\nARG python_version\n"
    /\ out = "ARG FOO=baz\nARG python_version=3.5.5\n"

(***************************************************************************)
(* C5: in template mode the output has as many lines as the template, in   *)
(* the same order, and every line that is not a well-formed declaration    *)
(* ARG <name>[=<default>], malformed ARG-like lines included, is written   *)
(* exactly as read.                                                        *)
(***************************************************************************)
C5_OthersVerbatim ==
    TemplateDone =>
        /\ Len(OutLines) = Len(InLines)
        /\ \A i \in 1..Len(InLines) :
              ~WellFormedArg(InLines[i]) => OutLines[i] = InLines[i]

=============================================================================
